---- MODULE Spec2Model ----
(***************************************************************************)
(* Model of S3RegexTagger (s3-permanent-deletes/main.py): a one-shot batch *)
(* job that reads a CSV table, groups its rows by location, lists the      *)
(* matching objects of every location with a pool of listing tasks, and    *)
(* then tags every matched object with a pool of tagging tasks.            *)
(*                                                                         *)
(* Strings (prefixes, filenames, object keys, messages) are sequences of   *)
(* tokens.  A token is either the separator "/" or a separator-free chunk  *)
(* of characters, and no chunk of the domain is a proper prefix of another *)
(* chunk, so that prefix tests on token sequences agree with prefix tests  *)
(* on the character strings.  An empty CSV field is read by pandas as NaN  *)
(* and is the empty sequence here.                                         *)
(***************************************************************************)
EXTENDS Integers, Sequences, FiniteSets, TLC

VARIABLES
    csv,                    \* the input file: [readable, columns, rows]
    pc,                     \* position of tag_objects_by_pattern (the coordinating thread)
    exit,                   \* how the run ended: "none", "fatal_read", "fatal_columns", "no_matches", "summary"
    df_clean,               \* rows left after dropna
    location_groups,        \* location -> list of filenames
    list_tasks,             \* location -> state of its find_objects_for_location task
    all_matching_objects,   \* the set() of matched keys, as a duplicate-free list
    matching_objects_list,  \* list(all_matching_objects)
    tag_tasks,              \* key -> state of its tag_single_object task
    successful,
    failed,
    already_tagged,
    processed,              \* i of enumerate(as_completed(future_to_key), 1)
    summary,                \* the numbers logged by the TAGGING SUMMARY block
    tags,                   \* remote store: key -> TagSet
    deleted,                \* remote store: keys deleted since the listing
    put_calls,              \* remote store: key -> number of put_object_tagging calls received
    faults,                 \* number of remote calls that failed so far
    history                 \* the tagging phases completed before the current one

vars == <<csv, pc, exit, df_clean, location_groups, list_tasks,
          all_matching_objects, matching_objects_list, tag_tasks,
          successful, failed, already_tagged, processed, summary,
          tags, deleted, put_calls, faults, history>>

----------------------------------------------------------------------------
(* Bounds of the model *)

MaxRows == 3        \* rows of the input table
PageSize == 2       \* keys per page of list_objects_v2
MaxFaults == 1      \* failing remote calls in one execution
MaxDeletes == 1     \* objects deleted by somebody else after the listing
MaxRuns == 2        \* tagging phases run in sequence over the same match list
MaxExternalTags == 1  \* objects tagged by somebody else during the tagging phase

----------------------------------------------------------------------------
(* Configuration of main() *)

TAG_KEY == "PERMANENT_DELETE"
TAG_VALUE == "CONFIRMED"
OBJECT_PREFIX_COLUMN == "location_folder"
OBJECT_FILENAME == "location_file"

----------------------------------------------------------------------------
(* Strings *)

Range(s) == {s[i] : i \in DOMAIN s}

StartsWith(s, p) == Len(s) >= Len(p) /\ SubSeq(s, 1, Len(p)) = p

EndsWith(s, p) == Len(s) >= Len(p) /\ SubSeq(s, Len(s) - Len(p) + 1, Len(s)) = p

\* needle in haystack
Contains(haystack, needle) ==
    \E i \in 0..(Len(haystack) - Len(needle)) :
        SubSeq(haystack, i + 1, i + Len(needle)) = needle

RECURSIVE LStrip(_)
LStrip(s) == IF s # <<>> /\ Head(s) = "/" THEN LStrip(Tail(s)) ELSE s

RECURSIVE RStrip(_)
RStrip(s) ==
    IF s # <<>> /\ s[Len(s)] = "/" THEN RStrip(SubSeq(s, 1, Len(s) - 1)) ELSE s

\* str.strip('/')
Strip(s) == RStrip(LStrip(s))

----------------------------------------------------------------------------
(* The bucket.  list_objects_v2 returns keys in byte order, which is the   *)
(* order of Bucket.                                                        *)

Bucket ==
    << <<"TvShows", "/", "A", "/", "S1", "/", "e1", ".mp4">>,
       <<"TvShows", "/", "A", "/", "e1", ".txt">>,
       <<"TvShows", "/", "A", "/", "e1", "_hd", ".mp4">>,
       <<"TvShows", "/", "B", "/", "e1", ".mp4">> >>

Keys == Range(Bucket)

Tag(k, v) == [Key |-> k, Value |-> v]

\* the tags the objects carry before the run
InitialTags ==
    [k \in Keys |->
        CASE k = Bucket[1] -> <<Tag("owner", "ops")>>
          [] k = Bucket[3] -> <<Tag(TAG_KEY, "PENDING"), Tag("owner", "ops")>>
          [] k = Bucket[4] -> <<Tag(TAG_KEY, TAG_VALUE)>>
          [] OTHER -> <<>>]

----------------------------------------------------------------------------
(* The input tables *)

Row(folder, file) == [location_folder |-> folder, location_file |-> file]

RowDomain ==
    << Row(<<"A">>, <<"e1">>),
       Row(<<"A">>, <<"e2">>),
       Row(<<"B">>, <<"e1">>),
       Row(<<"/", "A", "/">>, <<"e2">>),
       Row(<<"A", "/", "S1">>, <<"e1">>),
       Row(<<"A">>, <<"S1">>),
       Row(<<"B">>, <<>>),
       Row(<<"C">>, <<"e1">>) >>

\* the rows of RowDomain picked by a set of indices, in the order of RowDomain
RECURSIVE Pick(_, _)
Pick(idx, i) ==
    IF i > Len(RowDomain) THEN <<>>
    ELSE (IF i \in idx THEN <<RowDomain[i]>> ELSE <<>>) \o Pick(idx, i + 1)

Tables ==
    {Pick(idx, 1) : idx \in {s \in SUBSET DOMAIN RowDomain : Cardinality(s) <= MaxRows}}

Inputs ==
    {[readable |-> FALSE, columns |-> {}, rows |-> <<>>],
     [readable |-> TRUE, columns |-> {OBJECT_PREFIX_COLUMN, "title"}, rows |-> <<>>],
     [readable |-> TRUE, columns |-> {OBJECT_FILENAME}, rows |-> <<>>]}
    \cup
    {[readable |-> TRUE, columns |-> {OBJECT_PREFIX_COLUMN, OBJECT_FILENAME}, rows |-> t] :
        t \in Tables}

----------------------------------------------------------------------------
(* Reading and grouping: tag_objects_by_pattern, lines 158-186 *)

\* df.dropna(subset=[object_prefix, object_filename])
dropna(rows) ==
    SelectSeq(rows, LAMBDA row : row.location_folder # <<>> /\ row.location_file # <<>>)

RECURSIVE GroupRows_PerRow(_, _)
GroupRows_PerRow(rows, groups) ==
    IF rows = <<>> THEN groups
    ELSE LET location == Head(rows).location_folder \o Head(rows).location_file
             filename == Head(rows).location_file
         IN  GroupRows_PerRow(Tail(rows), groups @@ (location :> <<filename>>))

\* the defaultdict(list) filled by the loop over df_clean.iterrows()
RECURSIVE GroupRows(_, _)
GroupRows(rows, groups) ==
    IF rows = <<>> THEN groups
    ELSE LET location == Strip(Head(rows).location_folder)
             filename == Head(rows).location_file
         IN  GroupRows(Tail(rows),
                 IF location \in DOMAIN groups
                 THEN [groups EXCEPT ![location] = Append(@, filename)]
                 ELSE groups @@ (location :> <<filename>>))

NoGroups == [l \in {} |-> <<>>]

----------------------------------------------------------------------------
(* Discovery: find_objects_for_location and list_matching_objects *)

\* f"TvShows/{location_}/"
LocationPrefix(location) == <<"TvShows", "/">> \o location \o <<"/">>

\* re.escape(fn) + ".*\.mp4" matched up to the "$" of full_pattern
FilenameMatch(rest, fn) ==
    /\ StartsWith(rest, fn)
    /\ EndsWith(SubSeq(rest, Len(fn) + 1, Len(rest)), <<".mp4">>)

PatternMatch_Unanchored(location_, filenames, key) ==
    \E i \in DOMAIN filenames : \E n \in 1..Len(key) :
        FilenameMatch(SubSeq(key, n, Len(key)), filenames[i])

\* compiled_pattern.match(key) for full_pattern = ^location_(fn1.*\.mp4|...)$
PatternMatch(location_, filenames, key) ==
    /\ StartsWith(key, location_)
    /\ \E i \in DOMAIN filenames :
          FilenameMatch(SubSeq(key, Len(location_) + 1, Len(key)), filenames[i])

\* the keys list_objects_v2 returns for Prefix=prefix, in listing order
Listing(prefix) == SelectSeq(Bucket, LAMBDA key : StartsWith(key, prefix))

\* the paginator makes one call per page, and one call when nothing is listed
NumPages(prefix) ==
    LET n == Len(Listing(prefix))
    IN  IF n = 0 THEN 1 ELSE (n + PageSize - 1) \div PageSize

\* page['Contents'] of the i-th page
PageContents(prefix, i) ==
    LET l == Listing(prefix)
        last == IF i * PageSize < Len(l) THEN i * PageSize ELSE Len(l)
    IN  SubSeq(l, (i - 1) * PageSize + 1, last)

\* the matches appended to matching_objects for one page
PageMatches(location, i) ==
    SelectSeq(PageContents(LocationPrefix(location), i),
              LAMBDA key : PatternMatch(LocationPrefix(location),
                                        location_groups[location], key))

ListResponses == {"ok", "ClientError", "Exception"}

NewListTask ==
    [st |-> "running", page |-> 1, matching_objects |-> <<>>,
     result |-> <<>>, response |-> "none"]

\* one iteration of "for page in pages" of list_matching_objects, up to the
\* return of find_objects_for_location when the listing ends there
list_matching_objects(location, t, resp) ==
    CASE resp = "ok" ->
            LET m == t.matching_objects \o PageMatches(location, t.page)
            IN  IF t.page = NumPages(LocationPrefix(location))
                THEN [t EXCEPT !.st = "returned", !.matching_objects = m,
                               !.result = m, !.response = resp]
                ELSE [t EXCEPT !.page = @ + 1, !.matching_objects = m]
      [] resp = "ClientError" ->
            \* except ClientError: logged, matching_objects returned as it is
            [t EXCEPT !.st = "returned", !.result = t.matching_objects,
                      !.response = resp]
      [] resp = "Exception" ->
            \* propagates to find_objects_for_location, which returns []
            [t EXCEPT !.st = "returned", !.result = <<>>, !.response = resp]

Update_Extend(set, matches) == set \o matches

Update_Replace(set, matches) == matches

\* set.update(matches), the set kept as a duplicate-free list
RECURSIVE Update(_, _)
Update(set, matches) ==
    IF matches = <<>> THEN set
    ELSE Update(IF Head(matches) \in Range(set) THEN set
                ELSE Append(set, Head(matches)),
                Tail(matches))

----------------------------------------------------------------------------
(* Tagging: tag_single_object *)

tag_exists_KeyAndValue(existing_tags) ==
    \E i \in DOMAIN existing_tags :
        existing_tags[i].Key = TAG_KEY /\ existing_tags[i].Value = TAG_VALUE

\* any(tag['Key'] == tag_key for tag in existing_tags)
tag_exists(existing_tags) == \E i \in DOMAIN existing_tags : existing_tags[i].Key = TAG_KEY

\* existing_tags + [{'Key': tag_key, 'Value': tag_value}]
new_tags(existing_tags) == Append(existing_tags, Tag(TAG_KEY, TAG_VALUE))

NewTagTask(key) ==
    [key |-> key, st |-> "pending", existing_tags |-> <<>>,
     success |-> FALSE, message |-> <<>>,
     get_response |-> "none", put_response |-> "none"]

Return(t, success, message) ==
    [t EXCEPT !.st = "returned", !.success = success, !.message = message]

ClientErrorMessage(code) == <<"AWS Error: ", code, " - ", "message">>

ErrorCode(resp) == IF resp = "NoSuchKey" THEN "NoSuchKey" ELSE "AccessDenied"

AfterGet_NoSuchKeyAsOther(t, resp, tagset) ==
    IF resp = "Exception"
    THEN Return([t EXCEPT !.get_response = resp], FALSE,
                <<"Unexpected error: ", "message">>)
    ELSE LET existing_tags == IF resp = "ok" THEN tagset ELSE <<>>
             t1 == [t EXCEPT !.get_response = resp, !.existing_tags = existing_tags]
         IN  IF \E i \in DOMAIN existing_tags : existing_tags[i].Key = TAG_KEY
             THEN Return(t1, TRUE, <<"Tag ", "already exists">>)
             ELSE [t1 EXCEPT !.st = "fetched"]

\* from the call of get_object_tagging to the return or to the call of
\* put_object_tagging; tagset is the TagSet of the response
AfterGet(t, resp, tagset) ==
    IF resp = "NoSuchKey"
    THEN Return([t EXCEPT !.get_response = resp], FALSE, <<"Object not found">>)
    ELSE IF resp = "Exception"
    THEN Return([t EXCEPT !.get_response = resp], FALSE,
                <<"Unexpected error: ", "message">>)
    ELSE LET existing_tags == IF resp = "ok" THEN tagset ELSE <<>>
             t1 == [t EXCEPT !.get_response = resp, !.existing_tags = existing_tags]
         IN  IF tag_exists(existing_tags)
             THEN Return(t1, TRUE, <<"Tag ", "already exists">>)
             ELSE [t1 EXCEPT !.st = "fetched"]

\* from the response of put_object_tagging to the return
AfterPut(t, resp) ==
    LET t1 == [t EXCEPT !.put_response = resp]
    IN  IF resp = "ok" THEN Return(t1, TRUE, <<"Successfully tagged">>)
        ELSE IF resp = "Exception"
             THEN Return(t1, FALSE, <<"Unexpected error: ", "message">>)
        ELSE Return(t1, FALSE, ClientErrorMessage(ErrorCode(resp)))

\* what the store can answer to a call about key
Responses(key) ==
    IF key \in deleted THEN {"NoSuchKey", "ClientError", "Exception"}
    ELSE {"ok", "ClientError", "Exception"}

\* a failure that is not the store's answer about the object
IsFault(resp) == resp \in {"ClientError", "Exception"}

----------------------------------------------------------------------------
(* The state machine *)

Init ==
    /\ csv \in Inputs
    /\ pc = "start"
    /\ exit = "none"
    /\ df_clean = <<>>
    /\ location_groups = NoGroups
    /\ list_tasks = NoGroups
    /\ all_matching_objects = <<>>
    /\ matching_objects_list = <<>>
    /\ tag_tasks = <<>>
    /\ successful = 0
    /\ failed = 0
    /\ already_tagged = 0
    /\ processed = 0
    /\ summary = <<>>
    /\ tags = InitialTags
    /\ deleted = {}
    /\ put_calls = [k \in Keys |-> 0]
    /\ faults = 0
    /\ history = <<>>

storeVars == <<tags, deleted, put_calls>>
countVars == <<successful, failed, already_tagged, processed, summary>>
inputVars == <<csv, df_clean, location_groups>>

\* lines 156-222: read, validate, clean, group, submit the listing tasks
ReadCsv ==
    /\ pc = "start"
    /\ IF ~csv.readable
       THEN /\ pc' = "done"
            /\ exit' = "fatal_read"
            /\ UNCHANGED <<df_clean, location_groups, list_tasks>>
       ELSE IF OBJECT_PREFIX_COLUMN \notin csv.columns \/ OBJECT_FILENAME \notin csv.columns
       THEN /\ pc' = "done"
            /\ exit' = "fatal_columns"
            /\ UNCHANGED <<df_clean, location_groups, list_tasks>>
       ELSE LET clean == dropna(csv.rows)
                groups == GroupRows(clean, NoGroups)
            IN  /\ df_clean' = clean
                /\ location_groups' = groups
                /\ list_tasks' = [l \in DOMAIN groups |-> NewListTask]
                /\ pc' = "discover"
                /\ exit' = exit
    /\ UNCHANGED <<csv, all_matching_objects, matching_objects_list, tag_tasks,
                   countVars, storeVars, faults, history>>

\* a listing task receives the answer to its next list_objects_v2 call
ListPage(location, resp) ==
    /\ pc = "discover"
    /\ list_tasks[location].st = "running"
    /\ IsFault(resp) => faults < MaxFaults
    /\ list_tasks' = [list_tasks EXCEPT
                         ![location] = list_matching_objects(location, @, resp)]
    /\ faults' = IF IsFault(resp) THEN faults + 1 ELSE faults
    /\ UNCHANGED <<inputVars, pc, exit, all_matching_objects, matching_objects_list,
                   tag_tasks, countVars, storeVars, history>>

\* lines 224-226: the coordinating thread takes a completed listing future
MergeResult(location) ==
    /\ pc = "discover"
    /\ list_tasks[location].st = "returned"
    /\ all_matching_objects' = Update(all_matching_objects, list_tasks[location].result)
    /\ list_tasks' = [list_tasks EXCEPT ![location].st = "merged"]
    /\ UNCHANGED <<inputVars, pc, exit, matching_objects_list, tag_tasks,
                   countVars, storeVars, faults, history>>

DiscoveryComplete_FirstFuture == \E l \in DOMAIN list_tasks : list_tasks[l].st = "merged"

\* the with block of the listing pool is left when every future was taken
DiscoveryComplete == \A l \in DOMAIN list_tasks : list_tasks[l].st = "merged"

NoMatches_Never(list) == FALSE

\* if not matching_objects_list
NoMatches(list) == list = <<>>

\* lines 228-249: list(all_matching_objects), the empty check, the submission
StartTagging ==
    /\ pc = "discover"
    /\ DiscoveryComplete
    /\ matching_objects_list' = all_matching_objects
    /\ IF NoMatches(all_matching_objects)
       THEN /\ pc' = "done"
            /\ exit' = "no_matches"
            /\ UNCHANGED tag_tasks
       ELSE /\ pc' = "tagging"
            /\ exit' = exit
            /\ tag_tasks' = [i \in DOMAIN all_matching_objects |->
                                NewTagTask(all_matching_objects[i])]
    /\ UNCHANGED <<inputVars, list_tasks, all_matching_objects, countVars,
                   storeVars, faults, history>>

\* lines 102-116: a tagging task receives the answer to get_object_tagging
GetTags(i, resp) ==
    /\ pc = "tagging"
    /\ tag_tasks[i].st = "pending"
    /\ resp \in Responses(tag_tasks[i].key)
    /\ IsFault(resp) => faults < MaxFaults
    /\ tag_tasks' = [tag_tasks EXCEPT ![i] = AfterGet(@, resp, tags[@.key])]
    /\ faults' = IF IsFault(resp) THEN faults + 1 ELSE faults
    /\ UNCHANGED <<inputVars, pc, exit, list_tasks, all_matching_objects,
                   matching_objects_list, countVars, storeVars, history>>

\* lines 118-135: the task calls put_object_tagging and receives the answer
PutTags(i, resp) ==
    /\ pc = "tagging"
    /\ tag_tasks[i].st = "fetched"
    /\ resp \in Responses(tag_tasks[i].key)
    /\ IsFault(resp) => faults < MaxFaults
    /\ LET key == tag_tasks[i].key
       IN  /\ put_calls' = [put_calls EXCEPT ![key] = @ + 1]
           /\ tags' = IF resp = "ok"
                      THEN [tags EXCEPT ![key] = new_tags(tag_tasks[i].existing_tags)]
                      ELSE tags
    /\ tag_tasks' = [tag_tasks EXCEPT ![i] = AfterPut(@, resp)]
    /\ faults' = IF IsFault(resp) THEN faults + 1 ELSE faults
    /\ UNCHANGED <<inputVars, pc, exit, list_tasks, all_matching_objects,
                   matching_objects_list, countVars, deleted, history>>

Collect_NoElse(i) ==
    /\ pc = "tagging"
    /\ tag_tasks[i].st = "returned"
    /\ IF tag_tasks[i].success
       THEN IF Contains(tag_tasks[i].message, <<"already exists">>)
            THEN /\ already_tagged' = already_tagged + 1
                 /\ successful' = successful + 1
                 /\ UNCHANGED failed
            ELSE /\ successful' = successful + 1
                 /\ UNCHANGED <<already_tagged, failed>>
       ELSE /\ failed' = failed + 1
            /\ UNCHANGED <<successful, already_tagged>>
    /\ processed' = processed + 1
    /\ tag_tasks' = [tag_tasks EXCEPT ![i].st = "collected"]
    /\ UNCHANGED <<inputVars, pc, exit, list_tasks, all_matching_objects,
                   matching_objects_list, summary, storeVars, faults, history>>

\* lines 252-267: the coordinating thread takes a completed tagging future
Collect(i) ==
    /\ pc = "tagging"
    /\ tag_tasks[i].st = "returned"
    /\ IF tag_tasks[i].success
       THEN IF Contains(tag_tasks[i].message, <<"already exists">>)
            THEN /\ already_tagged' = already_tagged + 1
                 /\ UNCHANGED <<successful, failed>>
            ELSE /\ successful' = successful + 1
                 /\ UNCHANGED <<already_tagged, failed>>
       ELSE /\ failed' = failed + 1
            /\ UNCHANGED <<successful, already_tagged>>
    /\ processed' = processed + 1
    /\ tag_tasks' = [tag_tasks EXCEPT ![i].st = "collected"]
    /\ UNCHANGED <<inputVars, pc, exit, list_tasks, all_matching_objects,
                   matching_objects_list, summary, storeVars, faults, history>>

\* the with block of the tagging pool is left when every future was taken
TaggingComplete == \A i \in DOMAIN tag_tasks : tag_tasks[i].st = "collected"

\* lines 269-290: the TAGGING SUMMARY block
Summary ==
    /\ pc = "tagging"
    /\ TaggingComplete
    /\ summary' = <<[rows |-> Len(df_clean),
                     locations |-> Cardinality(DOMAIN location_groups),
                     matched |-> Len(matching_objects_list),
                     successful |-> successful,
                     already_tagged |-> already_tagged,
                     failed |-> failed]>>
    /\ pc' = "done"
    /\ exit' = "summary"
    /\ UNCHANGED <<inputVars, list_tasks, all_matching_objects, matching_objects_list,
                   tag_tasks, successful, failed, already_tagged, processed,
                   storeVars, faults, history>>

\* somebody else deletes a listed object while its tagging task has a call
\* to make (a deletion at any other time changes nothing the run can see)
ExternalDelete(key) ==
    /\ pc = "tagging"
    /\ key \notin deleted
    /\ \E i \in DOMAIN tag_tasks :
          tag_tasks[i].key = key /\ tag_tasks[i].st \in {"pending", "fetched"}
    /\ Cardinality(deleted) < MaxDeletes
    /\ deleted' = deleted \cup {key}
    /\ UNCHANGED <<inputVars, pc, exit, list_tasks, all_matching_objects,
                   matching_objects_list, tag_tasks, countVars, tags, put_calls,
                   faults, history>>

RemoteResponses == {"ok", "NoSuchKey", "ClientError", "Exception"}

ProgramNext ==
    \/ ReadCsv
    \/ \E l \in DOMAIN list_tasks : \E resp \in ListResponses : ListPage(l, resp)
    \/ \E l \in DOMAIN list_tasks : MergeResult(l)
    \/ StartTagging
    \/ \E i \in DOMAIN tag_tasks : \E resp \in RemoteResponses : GetTags(i, resp)
    \/ \E i \in DOMAIN tag_tasks : \E resp \in RemoteResponses : PutTags(i, resp)
    \/ \E i \in DOMAIN tag_tasks : Collect(i)
    \/ Summary

Next ==
    \/ ProgramNext
    \/ \E key \in Keys : ExternalDelete(key)

Spec == Init /\ [][Next]_vars

----------------------------------------------------------------------------
(* The tagging phase run again over the same match list *)

\* lines 237-249 entered a second time with the matching_objects_list of the
\* first run
Rerun ==
    /\ pc = "done"
    /\ exit = "summary"
    /\ Len(history) + 1 < MaxRuns
    /\ history' = Append(history, [tag_tasks |-> tag_tasks, tags |-> tags,
                                   put_calls |-> put_calls])
    /\ tag_tasks' = [i \in DOMAIN matching_objects_list |->
                        NewTagTask(matching_objects_list[i])]
    /\ successful' = 0
    /\ failed' = 0
    /\ already_tagged' = 0
    /\ processed' = 0
    /\ summary' = <<>>
    /\ pc' = "tagging"
    /\ exit' = "none"
    /\ UNCHANGED <<inputVars, list_tasks, all_matching_objects, matching_objects_list,
                   storeVars, faults>>

NextRerun == Next \/ Rerun

SpecRerun == Init /\ [][NextRerun]_vars

----------------------------------------------------------------------------
(* A concurrent external tagger *)

\* the tag the other tagger puts on objects
EXTERNAL_TAG == Tag("review", "external")

HasTag(tagset, tag) == \E j \in DOMAIN tagset : tagset[j] = tag

\* somebody else adds a differently-keyed tag to a matched object while the
\* tagging task of the object has a call to make: before get_object_tagging
\* or between get_object_tagging and put_object_tagging (lines 103-127)
ExternalTag(key) ==
    /\ pc = "tagging"
    /\ key \notin deleted
    /\ \E i \in DOMAIN tag_tasks :
          tag_tasks[i].key = key /\ tag_tasks[i].st \in {"pending", "fetched"}
    /\ ~HasTag(tags[key], EXTERNAL_TAG)
    /\ Cardinality({k \in Keys : HasTag(tags[k], EXTERNAL_TAG)}) < MaxExternalTags
    /\ tags' = [tags EXCEPT ![key] = Append(@, EXTERNAL_TAG)]
    /\ UNCHANGED <<inputVars, pc, exit, list_tasks, all_matching_objects,
                   matching_objects_list, tag_tasks, countVars, deleted, put_calls,
                   faults, history>>

NextExt ==
    \/ Next
    \/ \E key \in Keys : ExternalTag(key)

SpecExt == Init /\ [][NextExt]_vars

----------------------------------------------------------------------------
(* Properties *)

Finished(t) == t.st \in {"returned", "collected"}

HasTargetKey(tagset) == \E j \in DOMAIN tagset : tagset[j].Key = "PERMANENT_DELETE"

\* C1: a step of a tagging attempt never removes or overwrites a tag whose
\* key differs from the target tag key, whatever get_object_tagging answered:
\* the tag set of every object stays as it is or gains the target tag only.
C1_OtherTagsKept ==
    [][\A k \in Keys :
          /\ \A j \in DOMAIN tags[k] :
                tags[k][j].Key # "PERMANENT_DELETE"
                    => \E n \in DOMAIN tags'[k] : tags'[k][n] = tags[k][j]
          /\ \/ tags'[k] = tags[k]
             \/ tags'[k] = Append(tags[k], Tag("PERMANENT_DELETE", "CONFIRMED"))]_vars

\* C2: a task whose fetched tag set contains the target tag key returns
\* success with the reason "Tag already exists", has called put_object_tagging
\* never, and the tag set of its object in the store is the fetched one.
C2_AlreadyTaggedNoWrite ==
    \A i \in DOMAIN tag_tasks :
        LET t == tag_tasks[i]
        IN  (t.get_response = "ok" /\ HasTargetKey(t.existing_tags))
                => /\ Finished(t)
                   /\ t.success
                   /\ t.message = <<"Tag ", "already exists">>
                   /\ t.put_response = "none"
                   /\ put_calls[t.key] = 0
                   /\ tags[t.key] = t.existing_tags

C2_Witness ==
    \E i \in DOMAIN tag_tasks :
        /\ tag_tasks[i].st = "collected"
        /\ tag_tasks[i].get_response = "ok"
        /\ HasTargetKey(tag_tasks[i].existing_tags)
        /\ tag_tasks[i].existing_tags[1].Value = "PENDING"
        /\ already_tagged > 0

\* C3: in a tagging phase run after a completed one over the same match list,
\* every object the earlier phase reported as tagged (newly or already) keeps
\* its tag set, receives no put_object_tagging call, and its task, when it
\* succeeds, reports "Tag already exists" and never "Successfully tagged".
C3_SecondRunAllAlreadyTagged ==
    history # <<>> =>
        LET before == history[Len(history)]
        IN  \A i \in DOMAIN tag_tasks :
                LET t == tag_tasks[i]
                IN  before.tag_tasks[i].success
                        => /\ tags[t.key] = before.tags[t.key]
                           /\ put_calls[t.key] = before.put_calls[t.key]
                           /\ t.put_response = "none"
                           /\ (Finished(t) /\ t.success)
                                 => t.message = <<"Tag ", "already exists">>

\* the keys the pattern of a location matches in the whole bucket
FullMatches(location) ==
    {k \in Keys : PatternMatch(LocationPrefix(location), location_groups[location], k)}

ListingFailed(l) == list_tasks[l].response \in {"ClientError", "Exception"}

\* C4: a location whose listing failed on any page contributes no key, and
\* once discovery is over the match set is the union of the matches of the
\* locations whose listing succeeded.
C4_FailedGroupContributesNothing ==
    /\ \A l \in DOMAIN list_tasks : ListingFailed(l) => list_tasks[l].result = <<>>
    /\ pc \in {"tagging", "done"} /\ exit \notin {"fatal_read", "fatal_columns"}
          => Range(all_matching_objects) =
                UNION {FullMatches(l) : l \in {g \in DOMAIN list_tasks : ~ListingFailed(g)}}

CallFailed(resp) == resp \in {"NoSuchKey", "ClientError", "Exception"}

\* C5: a task one of whose remote calls failed returns success = False with a
\* message, is counted as failed, and when the summary is written every task
\* of the batch was run and collected.
C5_FailedCallIsFailure ==
    /\ \A i \in DOMAIN tag_tasks :
          LET t == tag_tasks[i]
          IN  (Finished(t) /\ (CallFailed(t.get_response) \/ CallFailed(t.put_response)))
                  => ~t.success /\ t.message # <<>>
    /\ exit = "summary"
          => /\ \A i \in DOMAIN tag_tasks : tag_tasks[i].st = "collected"
             /\ failed = Cardinality({i \in DOMAIN tag_tasks :
                                CallFailed(tag_tasks[i].get_response)
                                    \/ CallFailed(tag_tasks[i].put_response)})

\* C6: a task whose get_object_tagging call found no object returns
\* success = False with "Object not found", a reason no other failure has;
\* it calls put_object_tagging never, and the run ends with a summary that
\* counts it as failed.
C6_NotFoundDistinct ==
    /\ \A i \in DOMAIN tag_tasks :
          LET t == tag_tasks[i]
          IN  /\ t.get_response = "NoSuchKey"
                    => /\ Finished(t)
                       /\ ~t.success
                       /\ t.message = <<"Object not found">>
                       /\ t.put_response = "none"
              /\ (Finished(t) /\ t.get_response # "NoSuchKey")
                    => t.message # <<"Object not found">>
    /\ (pc = "done" /\ tag_tasks # <<>>)
          => /\ exit = "summary"
             /\ \A i \in DOMAIN tag_tasks : tag_tasks[i].st = "collected"
             /\ summary[1].failed >= Cardinality({i \in DOMAIN tag_tasks :
                                          tag_tasks[i].get_response = "NoSuchKey"})
             /\ summary[1].failed = Cardinality({i \in DOMAIN tag_tasks :
                                          ~tag_tasks[i].success})

C6_Witness ==
    /\ pc = "done"
    /\ exit = "summary"
    /\ \E i \in DOMAIN tag_tasks :
          /\ tag_tasks[i].get_response = "NoSuchKey"
          /\ tag_tasks[i].key \in deleted
    /\ \E i \in DOMAIN tag_tasks :
          /\ tag_tasks[i].put_response = "ClientError"
          /\ ~tag_tasks[i].success

CleanRows == dropna(csv.rows)

\* C7 as stated: one listing task per distinct prefix value of the rows.
C7_OneTaskPerRawPrefix ==
    pc # "start" /\ exit = "none"
        => Cardinality(DOMAIN list_tasks) =
              Cardinality({CleanRows[i].location_folder : i \in DOMAIN CleanRows})

\* C7 amended: the rows are grouped by their prefix with the leading and
\* trailing separators stripped; there is one listing task per distinct
\* stripped prefix, and it searches exactly the filenames of the rows that
\* have this stripped prefix.
C7_OneTaskPerStrippedPrefix ==
    pc # "start" /\ exit \notin {"fatal_read", "fatal_columns"}
        => /\ DOMAIN list_tasks = DOMAIN location_groups
           /\ DOMAIN location_groups =
                 {RStrip(LStrip(CleanRows[i].location_folder)) : i \in DOMAIN CleanRows}
           /\ \A l \in DOMAIN location_groups :
                 /\ Range(location_groups[l]) =
                       {CleanRows[i].location_file :
                          i \in {j \in DOMAIN CleanRows :
                                   RStrip(LStrip(CleanRows[j].location_folder)) = l}}
                 /\ Len(location_groups[l]) =
                       Cardinality({j \in DOMAIN CleanRows :
                                      RStrip(LStrip(CleanRows[j].location_folder)) = l})

C7_Witness ==
    /\ pc = "done"
    /\ Len(CleanRows) = 3
    /\ Cardinality({CleanRows[i].location_folder : i \in DOMAIN CleanRows}) = 3
    /\ Cardinality(DOMAIN list_tasks) = 2
    /\ \A l \in DOMAIN list_tasks : list_tasks[l].st = "merged"

\* C8: no key is twice in the match set or in the list made of it, no two
\* tagging tasks have the same key, and when the run has written its summary
\* every matched key was given to exactly one task.
C8_OneAttemptPerKey ==
    /\ \A i, j \in DOMAIN all_matching_objects :
          all_matching_objects[i] = all_matching_objects[j] => i = j
    /\ \A i, j \in DOMAIN matching_objects_list :
          matching_objects_list[i] = matching_objects_list[j] => i = j
    /\ \A i, j \in DOMAIN tag_tasks : tag_tasks[i].key = tag_tasks[j].key => i = j
    /\ exit = "summary"
          => \A l \in DOMAIN list_tasks : \A n \in DOMAIN list_tasks[l].result :
                Cardinality({i \in DOMAIN tag_tasks :
                                tag_tasks[i].key = list_tasks[l].result[n]}) = 1

C8_Witness ==
    /\ exit = "summary"
    /\ \E l1, l2 \in DOMAIN list_tasks :
          /\ l1 # l2
          /\ Range(list_tasks[l1].result) \cap Range(list_tasks[l2].result) # {}

\* C9: as soon as a tagging task exists, every listing task has returned and
\* its result is merged, and the keys of the tagging tasks are exactly the
\* keys of the results of all listing tasks.
C9_DiscoveryBeforeTagging ==
    tag_tasks # <<>>
        => /\ \A l \in DOMAIN list_tasks : list_tasks[l].st = "merged"
           /\ {tag_tasks[i].key : i \in DOMAIN tag_tasks} =
                 UNION {Range(list_tasks[l].result) : l \in DOMAIN list_tasks}
           /\ {tag_tasks[i].key : i \in DOMAIN tag_tasks} = Range(all_matching_objects)

C9_Witness ==
    /\ Cardinality(DOMAIN list_tasks) >= 2
    /\ \E i \in DOMAIN tag_tasks : tag_tasks[i].put_response = "ok"
    /\ \E i \in DOMAIN tag_tasks : tag_tasks[i].st = "pending"

InputOk ==
    /\ csv.readable
    /\ {"location_folder", "location_file"} \subseteq csv.columns

\* C10 as stated: a run with a readable input that has both columns ends
\* with the summary.
C10_SummaryUnlessFatalInput ==
    (pc = "done" /\ InputOk) => summary # <<>>

\* C10 amended: a finished run has written the summary exactly when the input
\* was readable, had both columns and at least one object was matched; the
\* summary counts every matched object once, whatever calls failed; and an
\* unfinished run can always take a step.
C10_SummaryUnlessFatalOrNoMatch ==
    /\ pc = "done"
          => /\ summary # <<>> <=> (InputOk /\ matching_objects_list # <<>>)
             /\ exit = (IF ~csv.readable THEN "fatal_read"
                        ELSE IF ~InputOk THEN "fatal_columns"
                        ELSE IF matching_objects_list = <<>> THEN "no_matches"
                        ELSE "summary")
             /\ summary # <<>>
                   => /\ summary[1].rows = Len(CleanRows)
                      /\ summary[1].matched = Len(matching_objects_list)
                      /\ summary[1].matched > 0
                      /\ summary[1].successful + summary[1].already_tagged
                            + summary[1].failed = summary[1].matched
    /\ pc # "done" => summary = <<>> /\ ENABLED ProgramNext

C10_Witness ==
    /\ pc = "done"
    /\ summary # <<>>
    /\ summary[1].failed > 0
    /\ \E l \in DOMAIN list_tasks : ListingFailed(l)

\* C11: a task that fetched a tag set without the target tag and whose
\* put_object_tagging call is served makes that one call with the fetched tag
\* set plus the target tag, and the write loses no tag of the other tagger:
\* every differently-keyed tag that is on the object when the write is made,
\* also one added after the task fetched the tags, is on it after the write.
C11_WriteKeepsExternalTag ==
    [][\A i \in DOMAIN tag_tasks :
          (/\ tag_tasks[i].st = "fetched"
           /\ tag_tasks[i].get_response = "ok"
           /\ i \in DOMAIN tag_tasks'
           /\ tag_tasks'[i].put_response = "ok")
              => LET key == tag_tasks[i].key
                 IN  /\ put_calls'[key] = put_calls[key] + 1
                     /\ \A j \in DOMAIN tag_tasks[i].existing_tags :
                           HasTag(tags'[key], tag_tasks[i].existing_tags[j])
                     /\ HasTag(tags'[key], Tag("PERMANENT_DELETE", "CONFIRMED"))
                     /\ \A j \in DOMAIN tags[key] :
                           tags[key][j].Key # "PERMANENT_DELETE"
                               => HasTag(tags'[key], tags[key][j])]_vars

ProperPrefix(p, s) == Len(p) < Len(s) /\ SubSeq(s, 1, Len(p)) = p

Collected == {i \in DOMAIN tag_tasks : tag_tasks[i].st = "collected"}

\* C13: during the tagging phase successful + already_tagged + failed is the
\* number of outcomes taken so far, every taken outcome is counted in exactly
\* one counter (the one of its kind), and the summary reports counters whose
\* sum is the number of matched objects.
C13_CountersAddUp ==
    /\ successful + already_tagged + failed = processed
    /\ processed = Cardinality(Collected)
    /\ failed = Cardinality({i \in Collected : ~tag_tasks[i].success})
    /\ already_tagged =
          Cardinality({i \in Collected :
                          /\ tag_tasks[i].success
                          /\ tag_tasks[i].message = <<"Tag ", "already exists">>})
    /\ successful =
          Cardinality({i \in Collected :
                          /\ tag_tasks[i].success
                          /\ tag_tasks[i].message = <<"Successfully tagged">>})
    /\ summary # <<>>
          => /\ summary[1].successful = successful
             /\ summary[1].already_tagged = already_tagged
             /\ summary[1].failed = failed
             /\ summary[1].successful + summary[1].already_tagged + summary[1].failed
                   = summary[1].matched
             /\ summary[1].matched = Len(matching_objects_list)

C13_Witness ==
    /\ summary # <<>>
    /\ summary[1].successful > 0
    /\ summary[1].already_tagged > 0
    /\ summary[1].failed > 0

\* position of a key in the listing of a prefix
IndexIn(l, key) == CHOOSE n \in DOMAIN l : l[n] = key

\* the keys a listing task returns, given how its listing was answered
ExpectedResult(location) ==
    LET t == list_tasks[location]
        listed == Listing(<<"TvShows", "/">> \o location \o <<"/">>)
    IN  IF t.response = "ok" THEN FullMatches(location)
        ELSE IF t.response = "ClientError"
        THEN {k \in FullMatches(location) :
                 IndexIn(listed, k) <= (t.page - 1) * PageSize}
        ELSE {}

\* the counter a tagging task ends in, given how its calls were answered
ExpectedCounter(t) ==
    IF t.get_response \in {"NoSuchKey", "Exception"} THEN "failed"
    ELSE IF t.get_response = "ok" /\ HasTargetKey(InitialTags[t.key])
    THEN "already_tagged"
    ELSE IF t.put_response = "ok" THEN "successful"
    ELSE "failed"

CountOf(counter) ==
    Cardinality({i \in DOMAIN tag_tasks : ExpectedCounter(tag_tasks[i]) = counter})

\* a step of a listing task or of a tagging task changes neither the match
\* set nor a counter
WorkerStepsKeepAggregates ==
    /\ (\E l \in DOMAIN list_tasks :
          list_tasks[l].st = "running" /\ list_tasks'[l] # list_tasks[l])
            => UNCHANGED <<all_matching_objects, successful, failed, already_tagged>>
    /\ (\E i \in DOMAIN tag_tasks :
          /\ tag_tasks[i].st \in {"pending", "fetched"}
          /\ tag_tasks'[i] # tag_tasks[i])
            => UNCHANGED <<all_matching_objects, successful, failed, already_tagged>>

\* C14: a step of a listing task or of a tagging task leaves the match set
\* and the counters as they are, and the match set and the numbers of the
\* summary are determined by the input table and by the answers of the
\* remote calls, whatever the order in which the tasks ran and completed.
C14_SummaryIndependentOfInterleaving ==
    /\ [](pc \in {"tagging", "done"} /\ exit \notin {"fatal_read", "fatal_columns"}
            => Range(all_matching_objects) =
                  UNION {ExpectedResult(l) : l \in DOMAIN list_tasks})
    /\ [](summary # <<>>
            => /\ summary[1].matched =
                     Cardinality(UNION {ExpectedResult(l) : l \in DOMAIN list_tasks})
               /\ summary[1].successful = CountOf("successful")
               /\ summary[1].already_tagged = CountOf("already_tagged")
               /\ summary[1].failed = CountOf("failed"))
    /\ [][WorkerStepsKeepAggregates]_vars

C14_Witness ==
    /\ summary # <<>>
    /\ faults > 0
    /\ Cardinality(DOMAIN list_tasks) >= 2
    /\ Len(all_matching_objects) >= 2
    /\ all_matching_objects[1] = Bucket[4]
    /\ \E i \in DOMAIN tag_tasks : i > 1 /\ tag_tasks[i].put_response = "ok"

====
